---------------------------- MODULE Spec2Model ----------------------------
(***************************************************************************)
(* Model of src/src/main.rs: main, which checks the source account's       *)
(* balance and calls transfer_ckb and then transfer_sudt, the coin         *)
(* selection and transaction assembly of the two, and the sUDT amount      *)
(* codec.                                                                  *)
(*                                                                         *)
(* Rust's u64 and u128 values exceed the integers TLC evaluates, so a      *)
(* number is held as a sequence of decimal limbs (base 10000, least        *)
(* significant limb first, no leading zero limb; zero is << >>).  The      *)
(* arithmetic below is exact; the fixed-width operators reduce modulo      *)
(* 2^64 or 2^128 and report whether the exact result left the width.       *)
(***************************************************************************)
EXTENDS Integers, Sequences, FiniteSets, TLC

----------------------------------------------------------------------------
(* Exact natural-number arithmetic on limb sequences.                      *)

Base == 10000

RECURSIVE Norm(_)
Norm(s) ==
    IF s = << >> THEN << >>
    ELSE IF s[Len(s)] = 0 THEN Norm(SubSeq(s, 1, Len(s) - 1))
    ELSE s

\* A number written as its decimal groups of four digits, most significant
\* first: N(<<142, 0, 0>>) is 142_0000_0000.
RECURSIVE Rev(_)
Rev(s) ==
    IF s = << >> THEN << >> ELSE Rev(Tail(s)) \o <<Head(s)>>

N(groups) == Norm(Rev(groups))

Zero == << >>

RECURSIVE BAddC(_, _, _)
BAddC(a, b, c) ==
    IF a = << >> /\ b = << >>
    THEN IF c = 0 THEN << >> ELSE <<c>>
    ELSE LET x == IF a = << >> THEN 0 ELSE Head(a)
             y == IF b = << >> THEN 0 ELSE Head(b)
             s == x + y + c
         IN  <<s % Base>> \o BAddC(IF a = << >> THEN << >> ELSE Tail(a),
                                   IF b = << >> THEN << >> ELSE Tail(b),
                                   s \div Base)

BAdd(a, b) == BAddC(a, b, 0)

RECURSIVE BLtFrom(_, _, _)
BLtFrom(a, b, i) ==
    IF i = 0 THEN FALSE
    ELSE IF a[i] # b[i] THEN a[i] < b[i]
    ELSE BLtFrom(a, b, i - 1)

BLt(a, b) ==
    IF Len(a) # Len(b) THEN Len(a) < Len(b) ELSE BLtFrom(a, b, Len(a))

BLe(a, b) == ~BLt(b, a)

\* a - b for a >= b.
RECURSIVE BSubB(_, _, _)
BSubB(a, b, w) ==
    IF a = << >> THEN << >>
    ELSE LET y == IF b = << >> THEN 0 ELSE Head(b)
             d == Head(a) - y - w
         IN  <<IF d < 0 THEN d + Base ELSE d>>
             \o BSubB(Tail(a), IF b = << >> THEN << >> ELSE Tail(b),
                      IF d < 0 THEN 1 ELSE 0)

BSub(a, b) == Norm(BSubB(a, b, 0))

\* a * k + c for small naturals k, c (k * Base within TLC's integers).
RECURSIVE BMulC(_, _, _)
BMulC(a, k, c) ==
    IF a = << >>
    THEN IF c = 0 THEN << >> ELSE <<c % Base>> \o BMulC(<< >>, k, c \div Base)
    ELSE LET p == Head(a) * k + c
         IN  <<p % Base>> \o BMulC(Tail(a), k, p \div Base)

BMul(a, k) == Norm(BMulC(a, k, 0))

\* Quotient and remainder of a by a small d, from the most significant limb.
RECURSIVE BDivFrom(_, _, _, _)
BDivFrom(a, d, i, r) ==
    IF i = 0 THEN [q |-> << >>, r |-> r]
    ELSE LET cur  == r * Base + a[i]
             rest == BDivFrom(a, d, i - 1, cur % d)
         IN  [q |-> rest.q \o <<cur \div d>>, r |-> rest.r]

BDiv(a, d) ==
    LET res == BDivFrom(a, d, Len(a), 0) IN [q |-> Norm(res.q), r |-> res.r]

RECURSIVE BMod(_, _)
BMod(a, m) == IF BLt(a, m) THEN a ELSE BMod(BSub(a, m), m)

RECURSIVE BSum(_)
BSum(s) == IF s = << >> THEN Zero ELSE BAdd(Head(s), BSum(Tail(s)))

----------------------------------------------------------------------------
(* Fixed-width unsigned arithmetic.  Each operator returns the value mod   *)
(* 2^w and ovf, whether the exact result is outside 0 .. 2^w - 1.  A build *)
(* with overflow checks panics where ovf holds; one without them goes on   *)
(* with the reduced value.                                                 *)

Pow64  == N(<<1844, 6744, 737, 955, 1616>>)
Pow128 == N(<<340, 2823, 6692, 938, 4634, 6337, 4607, 4317, 6821, 1456>>)

WAdd(a, b, m) ==
    LET e == BAdd(a, b) IN [v |-> BMod(e, m), ovf |-> BLe(m, e)]

WSub(a, b, m) ==
    IF BLt(a, b) THEN [v |-> BSub(BAdd(a, m), b), ovf |-> TRUE]
    ELSE [v |-> BSub(a, b), ovf |-> FALSE]

WMul(a, k, m) ==
    LET e == BMul(a, k) IN [v |-> BMod(e, m), ovf |-> BLe(m, e)]

Add64(a, b)  == WAdd(a, b, Pow64)
Sub64(a, b)  == WSub(a, b, Pow64)
Mul64(a, k)  == WMul(a, k, Pow64)
Add128(a, b) == WAdd(a, b, Pow128)
Sub128(a, b) == WSub(a, b, Pow128)

----------------------------------------------------------------------------
(* Program constants.                                                      *)

\* 1_000_000_000_00000000 shannons
CKB_TRANSFER_AMOUNT == N(<<10, 0, 0, 0, 0>>)
\* 1_000_000_000 tokens
SUDT_TRANSFER_AMOUNT == N(<<10, 0, 0>>)
\* 142_00000000 shannons
MIN_SUDT_CELL_CAPACITY == N(<<142, 0, 0>>)
\* 100000 shannons
TX_FEE == N(<<10, 0>>)
\* the literal 61_00000000 of transfer_sudt
DUST_THRESHOLD == N(<<61, 0, 0>>)

----------------------------------------------------------------------------
(* The sUDT amount codec.  Cell data is a sequence of bytes (0 .. 255).    *)

AmountBytes == 16

RECURSIVE to_le_bytes(_, _)
to_le_bytes(a, n) ==
    IF n = 0 THEN << >>
    ELSE LET d == BDiv(a, 256) IN <<d.r>> \o to_le_bytes(d.q, n - 1)

RECURSIVE from_le_bytes(_)
from_le_bytes(bytes) ==
    IF bytes = << >> THEN Zero
    ELSE Norm(BMulC(from_le_bytes(Tail(bytes)), 256, Head(bytes)))

\* The amount read most significant byte first.
parse_sudt_amount_be(data) ==
    IF Len(data) < AmountBytes THEN Zero
    ELSE from_le_bytes(Rev(SubSeq(data, 1, AmountBytes)))

parse_sudt_amount(data) ==
    IF Len(data) < AmountBytes THEN Zero
    ELSE from_le_bytes(SubSeq(data, 1, AmountBytes))

encode_sudt_amount(amount) == to_le_bytes(amount, AmountBytes)

----------------------------------------------------------------------------
(* Bounds of the model and the values the inputs are drawn from.           *)

MaxCkbCells == 2
MaxSudtCells == 3

CKB(n) == N(<<n, 0, 0>>)

\* Pure-capacity cells: exactly what transfer_ckb needs in main (four
\* amounts and the fee), and half of the amounts and the fee.
CkbCellKinds ==
    { [capacity |-> BAdd(BMul(CKB_TRANSFER_AMOUNT, 4), TX_FEE),
       type_ |-> "none", output_data |-> << >>],
      [capacity |-> BAdd(BMul(CKB_TRANSFER_AMOUNT, 2), TX_FEE),
       type_ |-> "none", output_data |-> << >>] }

\* sUDT cells: one amount on the capacity floor, three amounts (what
\* transfer_sudt sends in main) on 440 CKB, 2^128 - 50 tokens, and a cell
\* whose data is shorter than an amount.
SudtCellKinds ==
    { [capacity |-> MIN_SUDT_CELL_CAPACITY, type_ |-> "sudt",
       output_data |-> to_le_bytes(SUDT_TRANSFER_AMOUNT, AmountBytes)],
      [capacity |-> CKB(440), type_ |-> "sudt",
       output_data |-> to_le_bytes(BMul(SUDT_TRANSFER_AMOUNT, 3), AmountBytes)],
      [capacity |-> MIN_SUDT_CELL_CAPACITY, type_ |-> "sudt",
       output_data |-> to_le_bytes(BSub(Pow128, N(<<50>>)), AmountBytes)],
      [capacity |-> MIN_SUDT_CELL_CAPACITY, type_ |-> "sudt",
       output_data |-> <<7, 0, 0>>] }

SeqsUpTo(S, n) == UNION { [1..k -> S] : k \in 0..n }

\* The source account's live cells when main starts: pure-capacity cells
\* and sUDT cells (the order of one kind against the other is read by no
\* pass: each pass enumerates one kind).
Ledgers ==
    { c \o t : c \in SeqsUpTo(CkbCellKinds, MaxCkbCells),
               t \in SeqsUpTo(SudtCellKinds, MaxSudtCells) }

\* ckb_recipients of main: CKB_TRANSFER_AMOUNT to each of the four nodes.
ckb_recipients ==
    << [key |-> "bootnode", amount |-> CKB_TRANSFER_AMOUNT],
       [key |-> "node1", amount |-> CKB_TRANSFER_AMOUNT],
       [key |-> "node2", amount |-> CKB_TRANSFER_AMOUNT],
       [key |-> "node3", amount |-> CKB_TRANSFER_AMOUNT] >>

\* sudt_recipients of main: SUDT_TRANSFER_AMOUNT to node1, node2, node3.
sudt_recipients ==
    << [key |-> "node1", amount |-> SUDT_TRANSFER_AMOUNT],
       [key |-> "node2", amount |-> SUDT_TRANSFER_AMOUNT],
       [key |-> "node3", amount |-> SUDT_TRANSFER_AMOUNT] >>

----------------------------------------------------------------------------
(* State.                                                                  *)

VARIABLES
    overflow_checks,   \* whether the build panics on integer overflow
    cells,             \* the sender's live cells, in the indexer's order
    pc,                \* the position in main / transfer_ckb / transfer_sudt
    total_ckb,         \* total_ckb of main's balance check
    total_sudt,        \* total_sudt of main's balance check
    recipients,        \* the recipients argument of the running transfer
    total,             \* total_amount / total_sudt_amount
    total_needed,      \* total_needed of transfer_ckb
    inputs,            \* inputs: out points (positions in cells)
    input_capacity,
    input_sudt_amount,
    ckb_inputs,        \* ckb_inputs of transfer_sudt
    topup,             \* transfer_sudt's capacity pass: total_output_capacity,
                       \* whether the pass ran, needed_capacity and collected
    outputs,
    outputs_data,
    subs,              \* the subtractions evaluated: <<line, minuend, subtrahend>>
    tx,                \* the transaction built (NoTx before)
    sent,              \* the transactions send_transaction accepted
    panic              \* the panic message ("" while running)

vars == <<overflow_checks, cells, pc, total_ckb, total_sudt, recipients, total, total_needed, inputs,
          input_capacity, input_sudt_amount, ckb_inputs, topup, outputs,
          outputs_data, subs, tx, sent, panic>>

NoTx == [built |-> FALSE]
NoTopup == [ran |-> FALSE, total_output_capacity |-> Zero,
            needed_capacity |-> Zero, collected |-> Zero]

SOURCE_PRIVATE_KEY == "source"

Init ==
    /\ overflow_checks \in BOOLEAN
    /\ cells \in Ledgers
    /\ pc = "main"
    /\ total_ckb = Zero
    /\ total_sudt = Zero
    /\ recipients = << >>
    /\ total = Zero
    /\ total_needed = Zero
    /\ inputs = << >>
    /\ input_capacity = Zero
    /\ input_sudt_amount = Zero
    /\ ckb_inputs = << >>
    /\ topup = NoTopup
    /\ outputs = << >>
    /\ outputs_data = << >>
    /\ subs = << >>
    /\ tx = NoTx
    /\ sent = << >>
    /\ panic = ""

\* A panic unwinds main: nothing is built or sent afterwards.
Panic(msg) ==
    /\ pc' = "panicked"
    /\ panic' = msg

\* The positions of the cells of cs whose type script is type, in order.
RECURSIVE FilterFrom(_, _, _)
FilterFrom(cs, i, type) ==
    IF i > Len(cs) THEN << >>
    ELSE (IF cs[i].type_ = type THEN <<i>> ELSE << >>) \o FilterFrom(cs, i + 1, type)

find_ckb_cells(cs) == FilterFrom(cs, 1, "none")

find_sudt_cells(cs) == FilterFrom(cs, 1, "sudt")

\* recipients.iter().map(|(_, amount)| *amount).sum() in width m.
RECURSIVE SumFrom(_, _, _, _, _)
SumFrom(rs, i, acc, ovf, m) ==
    IF i > Len(rs) THEN [v |-> acc, ovf |-> ovf]
    ELSE LET a == WAdd(acc, rs[i].amount, m)
         IN  SumFrom(rs, i + 1, a.v, ovf \/ a.ovf, m)

SumAmounts(rs, m) == SumFrom(rs, 1, Zero, FALSE, m)

----------------------------------------------------------------------------
(* main, up to the call of transfer_ckb                                    *)

OVERFLOW == "arithmetic overflow"

\* The panic of an RPC call that fails (expect / unwrap on its result).
RPC_FAILED == "Failed to get cells"

\* The capacities, and the decoded amounts, of the cells of cs at ops.
Capacities(cs, ops) == [i \in 1..Len(ops) |-> cs[ops[i]].capacity]

SudtAmounts(cs, ops) ==
    [i \in 1..Len(ops) |-> parse_sudt_amount(cs[ops[i]].output_data)]

\* values.iter().sum() in width m.
RECURSIVE SumValuesFrom(_, _, _, _, _)
SumValuesFrom(values, i, acc, ovf, m) ==
    IF i > Len(values) THEN [v |-> acc, ovf |-> ovf]
    ELSE LET a == WAdd(acc, values[i], m)
         IN  SumValuesFrom(values, i + 1, a.v, ovf \/ a.ovf, m)

SumValues(values, m) == SumValuesFrom(values, 1, Zero, FALSE, m)

\* main reads the four key files and derives the lock script of each key.
LoadKeys ==
    /\ pc = "main"
    /\ \/ pc' = "balance_ckb" /\ UNCHANGED panic
       \/ Panic("Failed to read private key")
       \/ Panic("Invalid hex string")
       \/ Panic("Invalid private key")
    /\ UNCHANGED <<overflow_checks, cells, total_ckb, total_sudt, recipients,
                   total, total_needed, inputs, input_capacity,
                   input_sudt_amount, ckb_inputs, topup, outputs, outputs_data,
                   subs, tx, sent>>

\* The balance check of the pure-capacity cells: find_ckb_cells and the
\* u64 sum of their capacities.
BalanceCkb ==
    /\ pc = "balance_ckb"
    /\ \/ LET t == SumValues(Capacities(cells, find_ckb_cells(cells)), Pow64)
          IN  IF overflow_checks /\ t.ovf
              THEN Panic(OVERFLOW) /\ UNCHANGED total_ckb
              ELSE total_ckb' = t.v /\ pc' = "balance_sudt" /\ UNCHANGED panic
       \/ \* get_cells fails
          Panic(RPC_FAILED) /\ UNCHANGED total_ckb
    /\ UNCHANGED <<overflow_checks, cells, total_sudt, recipients, total,
                   total_needed, inputs, input_capacity, input_sudt_amount,
                   ckb_inputs, topup, outputs, outputs_data, subs, tx, sent>>

\* The balance check of the sUDT cells: find_sudt_cells and the u128 sum
\* of their decoded amounts.
BalanceSudt ==
    /\ pc = "balance_sudt"
    /\ \/ LET t == SumValues(SudtAmounts(cells, find_sudt_cells(cells)), Pow128)
          IN  IF overflow_checks /\ t.ovf
              THEN Panic(OVERFLOW) /\ UNCHANGED total_sudt
              ELSE total_sudt' = t.v /\ pc' = "ckb_call" /\ UNCHANGED panic
       \/ \* get_cells fails
          Panic(RPC_FAILED) /\ UNCHANGED total_sudt
    /\ UNCHANGED <<overflow_checks, cells, total_ckb, recipients, total,
                   total_needed, inputs, input_capacity, input_sudt_amount,
                   ckb_inputs, topup, outputs, outputs_data, subs, tx, sent>>

----------------------------------------------------------------------------
(* transfer_ckb                                                            *)

\* main calls transfer_ckb with ckb_recipients; total_amount and
\* total_needed are computed.
TransferCkbCall ==
    /\ pc = "ckb_call"
    /\ LET t == SumAmounts(ckb_recipients, Pow64)
           n == Add64(t.v, TX_FEE)
       IN  /\ recipients' = ckb_recipients
           /\ IF overflow_checks /\ (t.ovf \/ n.ovf)
              THEN /\ Panic(OVERFLOW)
                   /\ UNCHANGED <<total, total_needed>>
              ELSE /\ total' = t.v
                   /\ total_needed' = n.v
                   /\ pc' = "ckb_select"
                   /\ UNCHANGED panic
    /\ UNCHANGED <<overflow_checks, cells, total_ckb, total_sudt, inputs,
                   input_capacity, input_sudt_amount, ckb_inputs, topup,
                   outputs, outputs_data, subs, tx, sent>>

\* The loop over ckb_cells: push the cell, add its capacity, stop once
\* input_capacity >= total_needed.
RECURSIVE CkbLoop(_, _, _, _, _, _, _)
CkbLoop(cs, ops, i, ins, cap, ovf, target) ==
    IF i > Len(ops) THEN [inputs |-> ins, input_capacity |-> cap, ovf |-> ovf]
    ELSE LET a == Add64(cap, cs[ops[i]].capacity)
         IN  IF BLe(target, a.v)
             THEN [inputs |-> Append(ins, ops[i]), input_capacity |-> a.v,
                   ovf |-> ovf \/ a.ovf]
             ELSE CkbLoop(cs, ops, i + 1, Append(ins, ops[i]), a.v,
                          ovf \/ a.ovf, target)

CkbSelect ==
    /\ pc = "ckb_select"
    /\ \/ LET r == CkbLoop(cells, find_ckb_cells(cells), 1, << >>, Zero,
                           FALSE, total_needed)
          IN  IF overflow_checks /\ r.ovf
              THEN /\ Panic(OVERFLOW)
                   /\ UNCHANGED <<inputs, input_capacity>>
              ELSE /\ inputs' = r.inputs
                   /\ input_capacity' = r.input_capacity
                   /\ pc' = "ckb_assert"
                   /\ UNCHANGED panic
       \/ \* get_cells fails
          /\ Panic(RPC_FAILED)
          /\ UNCHANGED <<inputs, input_capacity>>
    /\ UNCHANGED <<overflow_checks, cells, total_ckb, total_sudt, recipients, total, total_needed,
                   input_sudt_amount, ckb_inputs, topup, outputs, outputs_data,
                   subs, tx, sent>>

\* assert!(input_capacity >= total_needed, "Not enough CKB ...")
CkbAssert ==
    /\ pc = "ckb_assert"
    /\ IF BLe(total_needed, input_capacity)
       THEN pc' = "ckb_outputs" /\ UNCHANGED panic
       ELSE Panic("Not enough CKB")
    /\ UNCHANGED <<overflow_checks, cells, total_ckb, total_sudt, recipients, total, total_needed,
                   inputs, input_capacity, input_sudt_amount, ckb_inputs, topup,
                   outputs, outputs_data, subs, tx, sent>>

\* One output per recipient: its amount, its lock, no type script, no data.
CkbRecipientOutputs(rs) ==
    [i \in 1..Len(rs) |->
        [capacity |-> rs[i].amount, lock |-> rs[i].key, type_ |-> "none"]]

EmptyData(n) == [i \in 1..n |-> << >>]

CkbOutputs ==
    /\ pc = "ckb_outputs"
    /\ outputs' = CkbRecipientOutputs(recipients)
    /\ outputs_data' = EmptyData(Len(recipients))
    /\ pc' = "ckb_change"
    /\ UNCHANGED <<overflow_checks, cells, total_ckb, total_sudt, recipients, total, total_needed,
                   inputs, input_capacity, input_sudt_amount, ckb_inputs, topup,
                   subs, tx, sent, panic>>

\* A change output only above the dust threshold of transfer_sudt.
CkbChangeEmittedAboveDust(change_amount) == BLt(DUST_THRESHOLD, change_amount)

\* change_amount = input_capacity - total_amount - TX_FEE; a change output
\* to the sender if change_amount > 0.
CkbChangeEmitted(change_amount) == BLt(Zero, change_amount)

CkbChange ==
    /\ pc = "ckb_change"
    /\ LET d1 == Sub64(input_capacity, total)
           d2 == Sub64(d1.v, TX_FEE)
       IN  IF overflow_checks /\ d1.ovf
           THEN /\ Panic(OVERFLOW)
                /\ subs' = Append(subs, <<330, input_capacity, total>>)
                /\ UNCHANGED <<outputs, outputs_data>>
           ELSE /\ subs' = subs \o << <<330, input_capacity, total>>,
                                      <<330, d1.v, TX_FEE>> >>
                /\ IF overflow_checks /\ d2.ovf
                   THEN /\ Panic(OVERFLOW)
                        /\ UNCHANGED <<outputs, outputs_data>>
                   ELSE /\ pc' = "ckb_build"
                        /\ UNCHANGED panic
                        /\ IF CkbChangeEmitted(d2.v)
                           THEN /\ outputs' = Append(outputs,
                                      [capacity |-> d2.v,
                                       lock |-> SOURCE_PRIVATE_KEY,
                                       type_ |-> "none"])
                                /\ outputs_data' = Append(outputs_data, << >>)
                           ELSE UNCHANGED <<outputs, outputs_data>>
    /\ UNCHANGED <<overflow_checks, cells, total_ckb, total_sudt, recipients, total, total_needed,
                   inputs, input_capacity, input_sudt_amount, ckb_inputs, topup,
                   tx, sent>>

\* One empty witness per input.
Witnesses(n) == [i \in 1..n |-> "WitnessArgs::default"]

CkbBuild ==
    /\ pc = "ckb_build"
    /\ \/ /\ tx' = [built |-> TRUE,
                    inputs |-> inputs,
                    outputs |-> outputs,
                    outputs_data |-> outputs_data,
                    witnesses |-> Witnesses(Len(inputs)),
                    cell_deps |-> <<"secp256k1">>]
          /\ pc' = "ckb_send"
          /\ UNCHANGED panic
       \/ \* get_block_by_number fails: no cell dep, no transaction
          /\ Panic("Failed to get the genesis block")
          /\ UNCHANGED tx
    /\ UNCHANGED <<overflow_checks, cells, total_ckb, total_sudt, recipients, total, total_needed,
                   inputs, input_capacity, input_sudt_amount, ckb_inputs, topup,
                   outputs, outputs_data, subs, sent>>

SIGN_FAILED == "Failed to sign the transaction"

\* sign_transaction, which panics when unlock_tx fails, then
\* send_transaction: the node accepts the transaction or rejects it, and a
\* rejection panics.  transfer_ckb returns to main.
CkbSend ==
    /\ pc = "ckb_send"
    /\ \/ sent' = Append(sent, tx) /\ pc' = "sleep" /\ UNCHANGED panic
       \/ Panic(SIGN_FAILED) /\ UNCHANGED sent
       \/ Panic("Failed to send CKB transfer transaction") /\ UNCHANGED sent
    /\ UNCHANGED <<overflow_checks, cells, total_ckb, total_sudt, recipients,
                   total, total_needed, inputs, input_capacity,
                   input_sudt_amount, ckb_inputs, topup, outputs, outputs_data,
                   subs, tx>>

----------------------------------------------------------------------------
(* main between the two transfers                                          *)

\* The cells of cs from position i on that are not at a position of spent.
RECURSIVE Unspent(_, _, _)
Unspent(cs, spent, i) ==
    IF i > Len(cs) THEN << >>
    ELSE (IF \E j \in 1..Len(spent) : spent[j] = i THEN << >> ELSE <<cs[i]>>)
         \o Unspent(cs, spent, i + 1)

\* The outputs of t from position i on that the source account owns, as
\* live cells.
RECURSIVE OwnOutputs(_, _)
OwnOutputs(t, i) ==
    IF i > Len(t.outputs) THEN << >>
    ELSE (IF t.outputs[i].lock = SOURCE_PRIVATE_KEY
          THEN <<[capacity |-> t.outputs[i].capacity,
                  type_ |-> t.outputs[i].type_,
                  output_data |-> t.outputs_data[i]]>>
          ELSE << >>)
         \o OwnOutputs(t, i + 1)

\* The source account's live cells once transaction t is committed: the
\* inputs of t are gone and its outputs to the source follow the rest.
Committed(cs, t) == Unspent(cs, t.inputs, 1) \o OwnOutputs(t, 1)

\* main sleeps 10 seconds for the CKB transaction to be committed: by the
\* end of the sleep the indexer shows the committed cells, or still the
\* cells of before.
Sleep ==
    /\ pc = "sleep"
    /\ \/ cells' = Committed(cells, tx)
       \/ cells' = cells
    /\ pc' = "sudt_call"
    /\ UNCHANGED <<overflow_checks, total_ckb, total_sudt, recipients, total,
                   total_needed, inputs, input_capacity, input_sudt_amount,
                   ckb_inputs, topup, outputs, outputs_data, subs, tx, sent,
                   panic>>

----------------------------------------------------------------------------
(* transfer_sudt                                                           *)

\* main calls transfer_sudt with sudt_recipients; total_sudt_amount is
\* computed and the locals of transfer_sudt are fresh.
TransferSudtCall ==
    /\ pc = "sudt_call"
    /\ LET t == SumAmounts(sudt_recipients, Pow128)
       IN  /\ recipients' = sudt_recipients
           /\ IF overflow_checks /\ t.ovf
              THEN Panic(OVERFLOW) /\ UNCHANGED total
              ELSE total' = t.v /\ pc' = "sudt_select" /\ UNCHANGED panic
    /\ total_needed' = Zero
    /\ inputs' = << >>
    /\ input_capacity' = Zero
    /\ outputs' = << >>
    /\ outputs_data' = << >>
    /\ tx' = NoTx
    /\ UNCHANGED <<overflow_checks, cells, total_ckb, total_sudt,
                   input_sudt_amount, ckb_inputs, topup, subs, sent>>

\* The loop over sudt_cells: push the cell, add its decoded amount and its
\* capacity, stop once input_sudt_amount >= total_sudt_amount.
RECURSIVE SudtLoop(_, _, _, _, _, _, _, _)
SudtLoop(cs, ops, i, ins, amt, cap, ovf, target) ==
    IF i > Len(ops)
    THEN [inputs |-> ins, input_sudt_amount |-> amt, input_capacity |-> cap,
          ovf |-> ovf]
    ELSE LET a == Add128(amt, parse_sudt_amount(cs[ops[i]].output_data))
             c == Add64(cap, cs[ops[i]].capacity)
             o == ovf \/ a.ovf \/ c.ovf
         IN  IF BLe(target, a.v)
             THEN [inputs |-> Append(ins, ops[i]), input_sudt_amount |-> a.v,
                   input_capacity |-> c.v, ovf |-> o]
             ELSE SudtLoop(cs, ops, i + 1, Append(ins, ops[i]), a.v, c.v, o,
                           target)

SudtSelect ==
    /\ pc = "sudt_select"
    /\ \/ LET sudt_cells == find_sudt_cells(cells)
              r == SudtLoop(cells, sudt_cells, 1, << >>, Zero, Zero, FALSE,
                            total)
          IN  IF sudt_cells = << >>
              THEN /\ Panic("No sUDT cells found")
                   /\ UNCHANGED <<inputs, input_sudt_amount, input_capacity>>
              ELSE IF overflow_checks /\ r.ovf
              THEN /\ Panic(OVERFLOW)
                   /\ UNCHANGED <<inputs, input_sudt_amount, input_capacity>>
              ELSE /\ inputs' = r.inputs
                   /\ input_sudt_amount' = r.input_sudt_amount
                   /\ input_capacity' = r.input_capacity
                   /\ pc' = "sudt_assert"
                   /\ UNCHANGED panic
       \/ \* get_cells fails
          /\ Panic(RPC_FAILED)
          /\ UNCHANGED <<inputs, input_sudt_amount, input_capacity>>
    /\ UNCHANGED <<overflow_checks, cells, total_ckb, total_sudt, recipients, total, total_needed,
                   ckb_inputs, topup, outputs, outputs_data, subs, tx, sent>>

\* assert!(input_sudt_amount >= total_sudt_amount, "Not enough sUDT ...")
SudtAssert ==
    /\ pc = "sudt_assert"
    /\ IF BLe(total, input_sudt_amount)
       THEN pc' = "sudt_topup" /\ UNCHANGED panic
       ELSE Panic("Not enough sUDT")
    /\ UNCHANGED <<overflow_checks, cells, total_ckb, total_sudt, recipients, total, total_needed,
                   inputs, input_capacity, input_sudt_amount, ckb_inputs, topup,
                   outputs, outputs_data, subs, tx, sent>>

\* The loop over ckb_cells of the capacity pass: push the cell, add its
\* capacity to collected and to input_capacity, stop once
\* collected >= needed_capacity.
RECURSIVE TopupLoop(_, _, _, _, _, _, _, _)
TopupLoop(cs, ops, i, ins, collected, cap, ovf, needed) ==
    IF i > Len(ops)
    THEN [ckb_inputs |-> ins, collected |-> collected, input_capacity |-> cap,
          ovf |-> ovf]
    ELSE LET k == Add64(collected, cs[ops[i]].capacity)
             c == Add64(cap, cs[ops[i]].capacity)
             o == ovf \/ k.ovf \/ c.ovf
         IN  IF BLe(needed, k.v)
             THEN [ckb_inputs |-> Append(ins, ops[i]), collected |-> k.v,
                   input_capacity |-> c.v, ovf |-> o]
             ELSE TopupLoop(cs, ops, i + 1, Append(ins, ops[i]), k.v, c.v, o,
                            needed)

\* total_output_capacity + TX_FEE + MIN_SUDT_CELL_CAPACITY
Requirement(total_output_capacity) ==
    LET a == Add64(total_output_capacity, TX_FEE)
        b == Add64(a.v, MIN_SUDT_CELL_CAPACITY)
    IN  [v |-> b.v, ovf |-> a.ovf \/ b.ovf]

\* Whether more capacity is looked for.
NeedsTopup(cap, requirement) == BLt(cap, requirement)

SudtTopup ==
    /\ pc = "sudt_topup"
    /\ LET toc == Mul64(MIN_SUDT_CELL_CAPACITY, Len(recipients))
           req == Requirement(toc.v)
           nd  == Sub64(req.v, input_capacity)
           r   == TopupLoop(cells, find_ckb_cells(cells), 1, << >>, Zero,
                            input_capacity, FALSE, nd.v)
       IN  IF overflow_checks /\ (toc.ovf \/ req.ovf)
           THEN /\ Panic(OVERFLOW)
                /\ UNCHANGED <<ckb_inputs, topup, input_capacity, subs>>
           ELSE IF ~NeedsTopup(input_capacity, req.v)
           THEN /\ topup' = [NoTopup EXCEPT !.total_output_capacity = toc.v]
                /\ pc' = "sudt_outputs"
                /\ UNCHANGED <<ckb_inputs, input_capacity, subs, panic>>
           ELSE \/ /\ subs' = Append(subs, <<435, req.v, input_capacity>>)
                   /\ IF overflow_checks /\ (nd.ovf \/ r.ovf)
                      THEN /\ Panic(OVERFLOW)
                           /\ UNCHANGED <<ckb_inputs, topup, input_capacity>>
                      ELSE /\ ckb_inputs' = r.ckb_inputs
                           /\ input_capacity' = r.input_capacity
                           /\ topup' = [ran |-> TRUE,
                                        total_output_capacity |-> toc.v,
                                        needed_capacity |-> nd.v,
                                        collected |-> r.collected]
                           /\ pc' = "sudt_outputs"
                           /\ UNCHANGED panic
                \/ \* get_cells fails
                   /\ Panic(RPC_FAILED)
                   /\ UNCHANGED <<ckb_inputs, topup, input_capacity, subs>>
    /\ UNCHANGED <<overflow_checks, cells, total_ckb, total_sudt, recipients, total, total_needed,
                   inputs, input_sudt_amount, outputs, outputs_data, tx, sent>>


\* One output per recipient: the capacity floor, its lock, the sUDT type
\* script; its data is the encoded amount.
SudtRecipientOutputs(rs) ==
    [i \in 1..Len(rs) |->
        [capacity |-> MIN_SUDT_CELL_CAPACITY, lock |-> rs[i].key,
         type_ |-> "sudt"]]

SudtRecipientData(rs) ==
    [i \in 1..Len(rs) |-> encode_sudt_amount(rs[i].amount)]

SudtOutputs ==
    /\ pc = "sudt_outputs"
    /\ outputs' = SudtRecipientOutputs(recipients)
    /\ outputs_data' = SudtRecipientData(recipients)
    /\ pc' = "sudt_change"
    /\ UNCHANGED <<overflow_checks, cells, total_ckb, total_sudt, recipients, total, total_needed,
                   inputs, input_capacity, input_sudt_amount, ckb_inputs, topup,
                   subs, tx, sent, panic>>

\* A dust test that also holds back a capacity floor, as the sUDT change
\* branch does before it tests: 142 CKB + 61 CKB.
AboveDustAndFloor(capacity) ==
    BLt(BAdd(DUST_THRESHOLD, MIN_SUDT_CELL_CAPACITY), capacity)

\* Whether a pure CKB change output of this capacity is emitted.
AboveDust(capacity) == BLt(DUST_THRESHOLD, capacity)

\* Whether an sUDT change output is emitted.
SudtChangeEmitted(change_sudt_amount) == BLt(Zero, change_sudt_amount)

SudtChangeCell ==
    [capacity |-> MIN_SUDT_CELL_CAPACITY, lock |-> SOURCE_PRIVATE_KEY,
     type_ |-> "sudt"]

CkbChangeCell(capacity) ==
    [capacity |-> capacity, lock |-> SOURCE_PRIVATE_KEY, type_ |-> "none"]

\* The change computation of transfer_sudt on fixed-width values: the
\* subtractions in the order they are evaluated, each with whether it
\* underflows, and the change outputs that follow when none panics.
SudtChangePlan(isa, tot, cap, toc) ==
    LET s1 == Sub128(isa, tot)
        s2 == Sub64(cap, toc)
        s3 == Sub64(s2.v, TX_FEE)
        s4 == Sub64(s3.v, MIN_SUDT_CELL_CAPACITY)
        token == SudtChangeEmitted(s1.v)
    IN  [evaluated |->
            << <<475, isa, tot, s1.ovf>>, <<476, cap, toc, s2.ovf>>,
               <<476, s2.v, TX_FEE, s3.ovf>> >>
            \o (IF token THEN << <<489, s3.v, MIN_SUDT_CELL_CAPACITY, s4.ovf>> >>
                ELSE << >>),
         outputs |->
            IF token
            THEN <<SudtChangeCell>>
                 \o (IF AboveDust(s4.v) THEN <<CkbChangeCell(s4.v)>> ELSE << >>)
            ELSE IF AboveDust(s3.v) THEN <<CkbChangeCell(s3.v)>>
            ELSE << >>,
         outputs_data |->
            IF token
            THEN <<encode_sudt_amount(s1.v)>>
                 \o (IF AboveDust(s4.v) THEN << << >> >> ELSE << >>)
            ELSE IF AboveDust(s3.v) THEN << << >> >>
            ELSE << >>]

\* The position of the first subtraction of ev that underflows, 0 if none.
RECURSIVE FirstOverflow(_, _)
FirstOverflow(ev, i) ==
    IF i > Len(ev) THEN 0
    ELSE IF ev[i][4] THEN i
    ELSE FirstOverflow(ev, i + 1)

Operands(ev, n) == [i \in 1..n |-> <<ev[i][1], ev[i][2], ev[i][3]>>]

SudtChange ==
    /\ pc = "sudt_change"
    /\ LET plan == SudtChangePlan(input_sudt_amount, total, input_capacity,
                                  topup.total_output_capacity)
           k == FirstOverflow(plan.evaluated, 1)
       IN  IF overflow_checks /\ k > 0
           THEN /\ Panic(OVERFLOW)
                /\ subs' = subs \o Operands(plan.evaluated, k)
                /\ UNCHANGED <<outputs, outputs_data>>
           ELSE /\ subs' = subs \o Operands(plan.evaluated, Len(plan.evaluated))
                /\ outputs' = outputs \o plan.outputs
                /\ outputs_data' = outputs_data \o plan.outputs_data
                /\ pc' = "sudt_build"
                /\ UNCHANGED panic
    /\ UNCHANGED <<overflow_checks, cells, total_ckb, total_sudt, recipients, total, total_needed,
                   inputs, input_capacity, input_sudt_amount, ckb_inputs, topup,
                   tx, sent>>

\* sUDT inputs first, then the CKB inputs; one empty witness per input.
SudtTxInputs(ins, ckb_ins) == ins \o ckb_ins

\* A witness for each sUDT input only.
total_inputs_sudt_only(ins, ckb_ins) == Len(ins)

\* total_inputs = inputs.len() + ckb_inputs.len()
total_inputs(ins, ckb_ins) == Len(ins) + Len(ckb_ins)

SudtBuild ==
    /\ pc = "sudt_build"
    /\ \/ /\ tx' = [built |-> TRUE,
                    inputs |-> SudtTxInputs(inputs, ckb_inputs),
                    outputs |-> outputs,
                    outputs_data |-> outputs_data,
                    witnesses |-> Witnesses(total_inputs(inputs, ckb_inputs)),
                    cell_deps |-> <<"secp256k1", "sudt">>]
          /\ pc' = "sudt_send"
          /\ UNCHANGED panic
       \/ \* get_block_by_number fails: no cell dep, no transaction
          /\ Panic("Failed to get the genesis block")
          /\ UNCHANGED tx
    /\ UNCHANGED <<overflow_checks, cells, total_ckb, total_sudt, recipients, total, total_needed,
                   inputs, input_capacity, input_sudt_amount, ckb_inputs, topup,
                   outputs, outputs_data, subs, sent>>

\* sign_transaction, then send_transaction, as in transfer_ckb;
\* transfer_sudt returns to main, which ends.
SudtSend ==
    /\ pc = "sudt_send"
    /\ \/ sent' = Append(sent, tx) /\ pc' = "done" /\ UNCHANGED panic
       \/ Panic(SIGN_FAILED) /\ UNCHANGED sent
       \/ Panic("Failed to send sUDT transfer transaction") /\ UNCHANGED sent
    /\ UNCHANGED <<overflow_checks, cells, total_ckb, total_sudt, recipients,
                   total, total_needed, inputs, input_capacity,
                   input_sudt_amount, ckb_inputs, topup, outputs, outputs_data,
                   subs, tx>>

----------------------------------------------------------------------------

Next ==
    \/ LoadKeys
    \/ BalanceCkb
    \/ BalanceSudt
    \/ TransferCkbCall
    \/ CkbSelect
    \/ CkbAssert
    \/ CkbOutputs
    \/ CkbChange
    \/ CkbBuild
    \/ CkbSend
    \/ Sleep
    \/ TransferSudtCall
    \/ SudtSelect
    \/ SudtAssert
    \/ SudtTopup
    \/ SudtOutputs
    \/ SudtChange
    \/ SudtBuild
    \/ SudtSend

Spec == Init /\ [][Next]_vars

----------------------------------------------------------------------------
(* The codec applied alone: an amount is encoded (total holds the amount,  *)
(* outputs_data the bytes) and the bytes are parsed (input_sudt_amount     *)
(* holds the result).                                                      *)

\* The width of u128.
AmountBits == 128

\* 256^i and 2^k, exact.
RECURSIVE Pow256(_)
Pow256(i) == IF i = 0 THEN N(<<1>>) ELSE BMul(Pow256(i - 1), 256)

Pow2(k) == BMul(Pow256(k \div 8), <<1, 2, 4, 8, 16, 32, 64, 128>>[(k % 8) + 1])

\* 2^k and 2^k - 1 for every k a u128 holds: 0, 1, ..., 2^128 - 1.
CodecAmounts ==
    { Pow2(k) : k \in 0..(AmountBits - 1) }
    \cup { BSub(Pow2(k), N(<<1>>)) : k \in 0..AmountBits }

CodecInit ==
    /\ overflow_checks \in BOOLEAN
    /\ cells = << >>
    /\ pc = "encode"
    /\ total_ckb = Zero
    /\ total_sudt = Zero
    /\ recipients = << >>
    /\ total \in CodecAmounts
    /\ total_needed = Zero
    /\ inputs = << >>
    /\ input_capacity = Zero
    /\ input_sudt_amount = Zero
    /\ ckb_inputs = << >>
    /\ topup = NoTopup
    /\ outputs = << >>
    /\ outputs_data = << >>
    /\ subs = << >>
    /\ tx = NoTx
    /\ sent = << >>
    /\ panic = ""

Encode ==
    /\ pc = "encode"
    /\ outputs_data' = <<encode_sudt_amount(total)>>
    /\ pc' = "parse"
    /\ UNCHANGED <<overflow_checks, cells, total_ckb, total_sudt, recipients, total, total_needed,
                   inputs, input_capacity, input_sudt_amount, ckb_inputs, topup,
                   outputs, subs, tx, sent, panic>>

Parse ==
    /\ pc = "parse"
    /\ input_sudt_amount' = parse_sudt_amount(outputs_data[1])
    /\ pc' = "parsed"
    /\ UNCHANGED <<overflow_checks, cells, total_ckb, total_sudt, recipients, total, total_needed,
                   inputs, input_capacity, ckb_inputs, topup, outputs,
                   outputs_data, subs, tx, sent, panic>>

CodecNext == Encode \/ Parse

CodecSpec == CodecInit /\ [][CodecNext]_vars

----------------------------------------------------------------------------
(* Properties.  Sums are exact (not reduced to a width).                   *)

\* The state right after a transaction is built.
Assembled == pc \in {"ckb_send", "sudt_send"}

CellCaps(ops) == [i \in 1..Len(ops) |-> cells[ops[i]].capacity]

CellAmounts(ops) ==
    [i \in 1..Len(ops) |-> parse_sudt_amount(cells[ops[i]].output_data)]

OutputCaps(outs) == [i \in 1..Len(outs) |-> outs[i].capacity]

Amounts(rs) == [i \in 1..Len(rs) |-> rs[i].amount]

\* The token amount an output carries: that of its data if it has the
\* sUDT type script, none otherwise.
OutputAmounts(outs, data) ==
    [i \in 1..Len(outs) |->
        IF outs[i].type_ = "sudt" THEN parse_sudt_amount(data[i]) ELSE Zero]

\* C1: in every transaction built, the capacity of the inputs equals the
\* capacity of the outputs plus TX_FEE.
CapacityConserved ==
    Assembled =>
        BSum(CellCaps(tx.inputs)) = BAdd(BSum(OutputCaps(tx.outputs)), TX_FEE)

\* C2: in every transaction transfer_sudt builds, the token amounts of the
\* selected sUDT inputs sum to the token amounts of the outputs.
TokenConserved ==
    pc = "sudt_send" =>
        BSum(CellAmounts(inputs))
            = BSum(OutputAmounts(tx.outputs, tx.outputs_data))

\* C3: in every transaction built, no output without a type script has a
\* capacity below the dust threshold, and no change output has capacity 0.
NoDustOutput ==
    Assembled =>
        \A i \in 1..Len(tx.outputs) :
            /\ tx.outputs[i].type_ = "none"
                    => BLe(DUST_THRESHOLD, tx.outputs[i].capacity)
            /\ tx.outputs[i].lock = SOURCE_PRIVATE_KEY
                    => tx.outputs[i].capacity # Zero

\* C4: a transaction is built only if every selection pass that ran had
\* cells reaching its target to take: a pass whose cells all together fall
\* short of its target aborts the transfer before anything is built.
InsufficiencyAborts ==
    /\ pc = "ckb_send"
            => BLe(total_needed, BSum(CellCaps(find_ckb_cells(cells))))
    /\ pc = "sudt_send"
            => /\ BLe(total, BSum(CellAmounts(find_sudt_cells(cells))))
               /\ topup.ran
                    => BLe(topup.needed_capacity,
                           BSum(CellCaps(find_ckb_cells(cells))))

\* C5: no subtraction is evaluated with a minuend below its subtrahend.
NoUnderflow ==
    \A i \in 1..Len(subs) : BLe(subs[i][3], subs[i][2])

\* C6: a transaction transfer_ckb builds has one output per recipient, in
\* the order of the request, with the recipient's amount and lock and no
\* type script; then one change output to the sender for the capacity of
\* the inputs less (amounts + fee) when that is positive, and nothing more
\* when it is zero; so there are n or n + 1 outputs.
NativeOutputShape ==
    pc = "ckb_send" =>
        LET n      == Len(recipients)
            target == BAdd(BSum(Amounts(recipients)), TX_FEE)
            sel    == BSum(CellCaps(tx.inputs))
            outs   == tx.outputs
        IN  /\ Len(outs) \in {n, n + 1}
            /\ \A i \in 1..n :
                 outs[i] = [capacity |-> recipients[i].amount,
                            lock |-> recipients[i].key, type_ |-> "none"]
            /\ BLt(target, sel) =>
                 /\ Len(outs) = n + 1
                 /\ outs[n + 1] = [capacity |-> BSub(sel, target),
                                   lock |-> SOURCE_PRIVATE_KEY,
                                   type_ |-> "none"]
            /\ target = sel => Len(outs) = n

\* A transaction of four recipients and two inputs with positive change.
NativeChangeWitness ==
    /\ pc = "ckb_send"
    /\ Len(recipients) = 4
    /\ Len(tx.inputs) = 2
    /\ Len(tx.outputs) = 5
    /\ BLt(BAdd(BSum(Amounts(recipients)), TX_FEE), BSum(CellCaps(tx.inputs)))

\* A transaction whose inputs hold exactly amounts + fee: no change output.
NativeExactWitness ==
    /\ pc = "ckb_send"
    /\ Len(recipients) >= 1
    /\ BAdd(BSum(Amounts(recipients)), TX_FEE) = BSum(CellCaps(tx.inputs))
    /\ Len(tx.outputs) = Len(recipients)


\* The change outputs, and their data, that the change policy gives for
\* inputs of capacity cap and token amount tok sent to n recipients who
\* receive paid tokens in all; leftovers are exact differences.
PolicyChange(cap, tok, n, paid) ==
    LET floors == BAdd(BMul(MIN_SUDT_CELL_CAPACITY, n), TX_FEE)
        withTokenCell == BAdd(floors, MIN_SUDT_CELL_CAPACITY)
    IN  IF BLt(paid, tok)
        THEN IF BLt(BAdd(withTokenCell, DUST_THRESHOLD), cap)
             THEN [outputs |-> <<SudtChangeCell,
                                 CkbChangeCell(BSub(cap, withTokenCell))>>,
                   data |-> <<to_le_bytes(BSub(tok, paid), AmountBytes), << >> >>]
             ELSE [outputs |-> <<SudtChangeCell>>,
                   data |-> <<to_le_bytes(BSub(tok, paid), AmountBytes)>>]
        ELSE IF BLt(BAdd(floors, DUST_THRESHOLD), cap)
        THEN [outputs |-> <<CkbChangeCell(BSub(cap, floors))>>,
              data |-> << << >> >>]
        ELSE [outputs |-> << >>, data |-> << >>]

\* C7: a transaction transfer_sudt builds has one output per recipient (the
\* capacity floor, the sUDT type script, the recipient's encoded amount),
\* followed by exactly the change outputs of the change policy.
FungibleChangePolicy ==
    pc = "sudt_send" =>
        LET n == Len(recipients)
            p == PolicyChange(BSum(CellCaps(tx.inputs)),
                              BSum(CellAmounts(inputs)), n,
                              BSum(Amounts(recipients)))
        IN  /\ Len(tx.outputs) >= n
            /\ \A i \in 1..n :
                 /\ tx.outputs[i] = [capacity |-> MIN_SUDT_CELL_CAPACITY,
                                     lock |-> recipients[i].key,
                                     type_ |-> "sudt"]
                 /\ tx.outputs_data[i]
                        = to_le_bytes(recipients[i].amount, AmountBytes)
            /\ SubSeq(tx.outputs, n + 1, Len(tx.outputs)) = p.outputs
            /\ SubSeq(tx.outputs_data, n + 1, Len(tx.outputs_data)) = p.data

\* C8: in a transaction transfer_sudt builds, CKB cells are among the
\* inputs exactly when the capacity of the selected sUDT inputs is below
\* recipients * floor + fee + floor; every CKB input comes after every sUDT
\* input, and the inputs are the sUDT inputs and the CKB inputs.
TopupOrdering ==
    pc = "sudt_send" =>
        LET requirement ==
                BAdd(BAdd(BMul(MIN_SUDT_CELL_CAPACITY, Len(recipients)),
                          TX_FEE), MIN_SUDT_CELL_CAPACITY)
        IN  /\ (ckb_inputs # << >>)
                    <=> BLt(BSum(CellCaps(inputs)), requirement)
            /\ Len(tx.inputs) = Len(inputs) + Len(ckb_inputs)
            /\ \A i \in 1..Len(tx.inputs) :
                 IF i <= Len(inputs)
                 THEN tx.inputs[i] = inputs[i]
                      /\ cells[tx.inputs[i]].type_ = "sudt"
                 ELSE tx.inputs[i] = ckb_inputs[i - Len(inputs)]
                      /\ cells[tx.inputs[i]].type_ = "none"

\* C9: every transaction built has as many output data as outputs, the
\* data of an output without type script being empty and that of an sUDT
\* output an encoded amount, and one empty witness per input, the sUDT
\* inputs and the CKB inputs of transfer_sudt both counted.
TemplateStructure ==
    Assembled =>
        /\ Len(tx.outputs_data) = Len(tx.outputs)
        /\ \A i \in 1..Len(tx.outputs) :
             Len(tx.outputs_data[i])
                = (IF tx.outputs[i].type_ = "sudt" THEN AmountBytes ELSE 0)
        /\ Len(tx.witnesses) = Len(tx.inputs)
        /\ \A i \in 1..Len(tx.witnesses) :
             tx.witnesses[i] = "WitnessArgs::default"
        /\ Len(tx.inputs) = Len(inputs) + Len(ckb_inputs)

\* A transaction of transfer_sudt with sUDT inputs, CKB inputs, an sUDT
\* change output and a CKB change output.
TemplateStructureWitness ==
    /\ pc = "sudt_send"
    /\ Len(inputs) >= 1
    /\ Len(ckb_inputs) >= 1
    /\ Len(tx.witnesses) = Len(inputs) + Len(ckb_inputs)
    /\ Len(tx.outputs) = Len(recipients) + 2

\* The number that bytes denote read least significant byte first.
LeValue(bytes) ==
    BSum([i \in 1..Len(bytes) |-> BMul(Pow256(i - 1), bytes[i])])

\* C10: the encoding of an amount is 16 bytes that denote the amount least
\* significant byte first, and parsing the encoding gives the amount back.
CodecRoundTrip ==
    /\ pc \in {"parse", "parsed"} =>
         /\ Len(outputs_data[1]) = 16
         /\ \A i \in 1..16 : outputs_data[1][i] \in 0..255
         /\ LeValue(outputs_data[1]) = total
    /\ pc = "parsed" => input_sudt_amount = total

\* The largest u128, 2^128 - 1, encoded as sixteen bytes 255 and parsed.
CodecRoundTripWitness ==
    /\ pc = "parsed"
    /\ total = BSub(Pow128, N(<<1>>))
    /\ outputs_data[1] = [i \in 1..16 |-> 255]
    /\ input_sudt_amount = total


\* The running total of a pass after its first k cells: the sum of their
\* values.
RunningTotal(values, k) == BSum(SubSeq(values, 1, k))

\* selected is the prefix of enumerated that ends with the first cell after
\* which the running total is at least target.
ShortestPrefix(selected, enumerated, values, target) ==
    \E k \in 1..Len(enumerated) :
        /\ selected = SubSeq(enumerated, 1, k)
        /\ BLe(target, RunningTotal(values, k))
        /\ \A j \in 1..(k - 1) : BLt(RunningTotal(values, j), target)

\* The native pass of transfer_ckb has passed its assertion.
NativePassDone == pc \in {"ckb_outputs", "ckb_change", "ckb_build", "ckb_send"}

\* The token pass of transfer_sudt has passed its assertion.
TokenPassDone ==
    pc \in {"sudt_topup", "sudt_outputs", "sudt_change", "sudt_build",
            "sudt_send"}

\* The top-up pass of transfer_sudt has run and collected what it needed.
TopupPassDone ==
    /\ pc \in {"sudt_outputs", "sudt_change", "sudt_build", "sudt_send"}
    /\ topup.ran
    /\ BLe(topup.needed_capacity, topup.collected)

\* C11: after a pass that succeeds, the selected inputs are the first k
\* cells of the enumerated sequence in ledger order, k being the position of
\* the first cell at which the running total of the pass reaches its target:
\* the native pass over the cells without type script against total_needed,
\* the token pass over the sUDT cells against total_sudt_amount, the top-up
\* pass over the cells without type script against needed_capacity.
GreedyShortestPrefix ==
    /\ NativePassDone =>
         ShortestPrefix(inputs, find_ckb_cells(cells),
                        CellCaps(find_ckb_cells(cells)), total_needed)
    /\ TokenPassDone =>
         ShortestPrefix(inputs, find_sudt_cells(cells),
                        CellAmounts(find_sudt_cells(cells)), total)
    /\ TopupPassDone =>
         ShortestPrefix(ckb_inputs, find_ckb_cells(cells),
                        CellCaps(find_ckb_cells(cells)),
                        topup.needed_capacity)


\* Recipient count x floor + fee + one floor, not reduced to a width.
ExactRequirement(n) ==
    BAdd(BAdd(BMul(MIN_SUDT_CELL_CAPACITY, n), TX_FEE), MIN_SUDT_CELL_CAPACITY)

\* The outputs of a built transaction after those of the recipients.
ChangeOutputs == SubSeq(tx.outputs, Len(recipients) + 1, Len(tx.outputs))

ChangeData == SubSeq(tx.outputs_data, Len(recipients) + 1, Len(tx.outputs))

\* C12: in every transaction transfer_sudt builds, if the capacity of all
\* inputs (sUDT inputs and top-up inputs) is at least recipient count x
\* floor + fee + one floor and the token leftover the function computes is
\* zero (which it is whenever the exact leftover is), then the change is
\* exactly one output without type script and without data, owned by the
\* source, of the whole leftover capacity, which is at least one floor and
\* above the dust threshold; and a transaction with no change output at all
\* has input capacity below that requirement.
ZeroLeftoverChange ==
    pc = "sudt_send" =>
        LET n == Len(recipients)
            cap == BSum(CellCaps(tx.inputs))
            spent == BAdd(BMul(MIN_SUDT_CELL_CAPACITY, n), TX_FEE)
        IN  /\ (BLe(ExactRequirement(n), cap) /\ input_sudt_amount = total) =>
                  /\ ChangeOutputs = <<CkbChangeCell(BSub(cap, spent))>>
                  /\ ChangeData = << << >> >>
                  /\ BLe(MIN_SUDT_CELL_CAPACITY, BSub(cap, spent))
                  /\ BLt(DUST_THRESHOLD, BSub(cap, spent))
            /\ BSum(CellAmounts(inputs)) = BSum(Amounts(recipients)) =>
                  input_sudt_amount = total
            /\ ChangeOutputs = << >> => BLt(cap, ExactRequirement(n))

\* A transfer of all the tokens of the selected sUDT cells to the three
\* recipients: the top-up pass brings the input capacity to the requirement
\* and above, and the only change is one CKB output.
ZeroLeftoverChangeWitness ==
    /\ pc = "sudt_send"
    /\ Len(recipients) = 3
    /\ topup.ran
    /\ Len(ckb_inputs) >= 1
    /\ BLe(ExactRequirement(3), BSum(CellCaps(tx.inputs)))
    /\ BSum(CellAmounts(inputs)) = BSum(Amounts(recipients))
    /\ Len(tx.outputs) = 4
    /\ tx.outputs[4].type_ = "none"

=============================================================================
